---- MODULE Spec2Model ----
(***************************************************************************)
(* Personal Dashboard (src/app.py): flat-file persistence, the reminder    *)
(* store, the city geocoder with its fallback, the intraday series merge,   *)
(* and two sessions sharing the reminders document, as state machines.     *)
(*                                                                         *)
(* A Python str is a sequence of one-character strings; the character      *)
(* "U+D800" stands for a lone surrogate code point, "TAB" for a tab.       *)
(* A JSON value is a one-field record whose field name is its kind:        *)
(*   [str |-> chars]  [bool |-> b]  [null |-> TRUE]                        *)
(*   [list |-> <<values>>]  [obj |-> function from key to value]           *)
(* A document's text is a sequence of tokens:                              *)
(*   [p |-> "["] ...  [key |-> k]  [str |-> chars]  [lit |-> "true"] ...   *)
(***************************************************************************)
EXTENDS Integers, Sequences, FiniteSets, TLC

VARIABLES
    files,      \* path -> the document's text, or Absent
    reminders,  \* the module-level list `reminders` (a JSON value)
    pc,         \* position of the script run of the reminder session
    last,       \* outcome of the last reminder operation or render
    jres,       \* outcome of the last load_json / save_json call
    isoBasic,   \* the interpreter's date.fromisoformat takes "YYYYMMDD" (3.11 on)
    geo,        \* one run of geocode_city and of the tab that calls it
    stk,        \* one run of the Stocks tab
    tabs        \* browser tab -> its script run's own list and open file

vars == <<files, reminders, pc, last, jres, isoBasic, geo, stk, tabs>>

----------------------------------------------------------------------------
(* Bounds *)

MaxLen == 3        \* longest reminder list
MaxCityLen == 3    \* longest enumerated city text
MaxT == 2          \* intraday timestamps 1..MaxT

----------------------------------------------------------------------------
(* Python str *)

Surrogate == "U+D800"

Ord(c) ==
    CASE c = "TAB" -> 9
      [] c = " " -> 32
      [] c = "," -> 44
      [] c = "-" -> 45
      [] c = "/" -> 47
      [] c = "0" -> 48 [] c = "1" -> 49 [] c = "2" -> 50 [] c = "3" -> 51
      [] c = "4" -> 52 [] c = "5" -> 53 [] c = "6" -> 54 [] c = "7" -> 55
      [] c = "8" -> 56 [] c = "9" -> 57
      [] c = "A" -> 65 [] c = "C" -> 67 [] c = "R" -> 82 [] c = "T" -> 84
      [] c = "a" -> 97 [] c = "b" -> 98 [] c = "c" -> 99 [] c = "i" -> 105
      [] c = "k" -> 107 [] c = "l" -> 108 [] c = "n" -> 110 [] c = "o" -> 111
      [] c = "s" -> 115
      [] c = Surrogate -> 55296

IsSpace(c) == c \in {" ", "TAB"}

IsDigit(c) == c \in {"0", "1", "2", "3", "4", "5", "6", "7", "8", "9"}

DigitVal(c) == Ord(c) - 48

\* str.__lt__: code-point lexicographic order
RECURSIVE StrLess(_, _)
StrLess(a, b) ==
    IF b = <<>> THEN FALSE
    ELSE IF a = <<>> THEN TRUE
    ELSE IF Ord(Head(a)) < Ord(Head(b)) THEN TRUE
    ELSE IF Ord(Head(a)) > Ord(Head(b)) THEN FALSE
    ELSE StrLess(Tail(a), Tail(b))

RECURSIVE LStrip(_)
LStrip(s) == IF s # <<>> /\ IsSpace(Head(s)) THEN LStrip(Tail(s)) ELSE s

RECURSIVE RStrip(_)
RStrip(s) ==
    IF s # <<>> /\ IsSpace(s[Len(s)]) THEN RStrip(SubSeq(s, 1, Len(s) - 1)) ELSE s

\* str.strip()
Strip(s) == RStrip(LStrip(s))

\* str.replace(old, new) for a one-character old
RECURSIVE Replace(_, _, _)
Replace(s, old, new) ==
    IF s = <<>> THEN <<>>
    ELSE (IF Head(s) = old THEN new ELSE <<Head(s)>>) \o Replace(Tail(s), old, new)

\* str.split(): the maximal runs of non-whitespace, in order
RECURSIVE SplitWs(_, _, _)
SplitWs(s, cur, acc) ==
    IF s = <<>> THEN (IF cur = <<>> THEN acc ELSE Append(acc, cur))
    ELSE IF IsSpace(Head(s))
         THEN SplitWs(Tail(s), <<>>, IF cur = <<>> THEN acc ELSE Append(acc, cur))
         ELSE SplitWs(Tail(s), Append(cur, Head(s)), acc)

\* sep.join(parts)
RECURSIVE Join(_, _)
Join(sep, parts) ==
    IF parts = <<>> THEN <<>>
    ELSE IF Len(parts) = 1 THEN parts[1]
    ELSE parts[1] \o sep \o Join(sep, Tail(parts))

----------------------------------------------------------------------------
(* JSON values and documents.  File-system calls themselves (makedirs, open, *)
(* read, close) are taken to succeed; what can fail is decoding the text    *)
(* (json.load) and encoding a str for the UTF-8 file (json.dump).           *)

\* a file is Absent or holds a text
Absent == [absent |-> TRUE]
File(ts) == [text |-> ts]

JStr(s) == [str |-> s]
JNull == [null |-> TRUE]
JBool(b) == [bool |-> b]
JList(xs) == [list |-> xs]
JObj(f) == [obj |-> f]

IsStr(v) == DOMAIN v = {"str"}
IsList(v) == DOMAIN v = {"list"}
IsObj(v) == DOMAIN v = {"obj"}

P(c) == [p |-> c]

\* the keys of the three documents, in the order they are written
KeyOrder == <<"text", "due", "created", "name", "url",
              "city", "units", "tickers", "timezone", "dark_mode">>

\* a str that the "utf-8" codec refuses (a lone surrogate: UnicodeEncodeError)
Encodable(s) == \A i \in 1..Len(s) : s[i] # Surrogate

\* json.dump: the chunks of the text, in order
RECURSIVE DumpValue(_), DumpItems(_), DumpMembers(_, _, _)
DumpValue(v) ==
    IF IsStr(v) THEN <<[str |-> v.str]>>
    ELSE IF DOMAIN v = {"null"} THEN <<[lit |-> "null"]>>
    ELSE IF DOMAIN v = {"bool"} THEN <<[lit |-> IF v.bool THEN "true" ELSE "false"]>>
    ELSE IF IsList(v) THEN <<P("[")>> \o DumpItems(v.list) \o <<P("]")>>
    ELSE <<P("{")>> \o DumpMembers(v.obj, 1, TRUE) \o <<P("}")>>
DumpItems(xs) ==
    IF xs = <<>> THEN <<>>
    ELSE IF Len(xs) = 1 THEN DumpValue(xs[1])
    ELSE DumpValue(xs[1]) \o <<P(",")>> \o DumpItems(Tail(xs))
DumpMembers(f, i, first) ==
    IF i > Len(KeyOrder) THEN <<>>
    ELSE IF KeyOrder[i] \in DOMAIN f
         THEN (IF first THEN <<>> ELSE <<P(",")>>)
              \o <<[key |-> KeyOrder[i]], P(":")>> \o DumpValue(f[KeyOrder[i]])
              \o DumpMembers(f, i + 1, FALSE)
         ELSE DumpMembers(f, i + 1, first)

\* f.write(chunk) for each chunk: the chunks before the first one that cannot
\* be encoded reach the file, then UnicodeEncodeError
RECURSIVE WritableLen(_)
WritableLen(ts) ==
    IF ts = <<>> THEN 0
    ELSE IF DOMAIN Head(ts) = {"str"} /\ ~Encodable(Head(ts).str) THEN 0
    ELSE 1 + WritableLen(Tail(ts))

\* json.load: recursive descent; [ok, val, rest]
ParseFail == [ok |-> FALSE, val |-> JNull, rest |-> <<>>]
ParseOk(v, rest) == [ok |-> TRUE, val |-> v, rest |-> rest]

RECURSIVE ParseValue(_), ParseItems(_, _), ParseMembers(_, _)
ParseValue(ts) ==
    IF ts = <<>> THEN ParseFail
    ELSE LET t == Head(ts)
             r == Tail(ts)
         IN  IF DOMAIN t = {"str"} THEN ParseOk(JStr(t.str), r)
             ELSE IF t = [lit |-> "null"] THEN ParseOk(JNull, r)
             ELSE IF t = [lit |-> "true"] THEN ParseOk(JBool(TRUE), r)
             ELSE IF t = [lit |-> "false"] THEN ParseOk(JBool(FALSE), r)
             ELSE IF t = P("[")
                  THEN (IF r # <<>> /\ Head(r) = P("]")
                        THEN ParseOk(JList(<<>>), Tail(r))
                        ELSE ParseItems(r, <<>>))
             ELSE IF t = P("{")
                  THEN (IF r # <<>> /\ Head(r) = P("}")
                        THEN ParseOk(JObj(<<>>), Tail(r))
                        ELSE ParseMembers(r, <<>>))
             ELSE ParseFail
ParseItems(ts, acc) ==
    LET v == ParseValue(ts)
    IN  IF ~v.ok \/ v.rest = <<>> THEN ParseFail
        ELSE IF Head(v.rest) = P(",") THEN ParseItems(Tail(v.rest), Append(acc, v.val))
        ELSE IF Head(v.rest) = P("]") THEN ParseOk(JList(Append(acc, v.val)), Tail(v.rest))
        ELSE ParseFail
ParseMembers(ts, acc) ==
    IF Len(ts) < 3 \/ DOMAIN ts[1] # {"key"} \/ ts[2] # P(":") THEN ParseFail
    ELSE LET v == ParseValue(SubSeq(ts, 3, Len(ts)))
             f == (ts[1].key :> v.val) @@ acc    \* a repeated key: the last one wins
         IN  IF ~v.ok \/ v.rest = <<>> THEN ParseFail
             ELSE IF Head(v.rest) = P(",") THEN ParseMembers(Tail(v.rest), f)
             ELSE IF Head(v.rest) = P("}") THEN ParseOk(JObj(f), Tail(v.rest))
             ELSE ParseFail

\* json.load(f): one value, then nothing but the end of the text
JsonLoad(text) ==
    LET r == ParseValue(text)
    IN  IF r.ok /\ r.rest = <<>> THEN [exc |-> FALSE, val |-> r.val]
        ELSE [exc |-> TRUE, val |-> JNull]

\* load_json without its try/except
LoadJsonUnguarded(content, default) ==
    IF content = Absent THEN [value |-> default, warned |-> FALSE, raised |-> FALSE]
    ELSE LET r == JsonLoad(content.text)
         IN  [value |-> r.val, warned |-> FALSE, raised |-> r.exc]

\* load_json(path, default): [value, warned, raised]
LoadJson(content, default) ==
    IF content = Absent THEN [value |-> default, warned |-> FALSE, raised |-> FALSE]
    ELSE LET r == JsonLoad(content.text)
         IN  IF r.exc THEN [value |-> default, warned |-> TRUE, raised |-> FALSE]
             ELSE [value |-> r.val, warned |-> FALSE, raised |-> FALSE]

\* save_json(path, data): open(path, "w") truncates, json.dump writes chunk by
\* chunk, any exception is reported with st.error; [text, reported, raised]
SaveJson(data) ==
    LET ts == DumpValue(data)
        n  == WritableLen(ts)
    IN  [text |-> SubSeq(ts, 1, n), reported |-> n < Len(ts), raised |-> FALSE]

----------------------------------------------------------------------------
(* The three documents *)

SETTINGS_PATH == "settings.json"
REMINDERS_PATH == "reminders.json"
FAVORITES_PATH == "favorites.json"

Paths == {SETTINGS_PATH, REMINDERS_PATH, FAVORITES_PATH}

RocklinCA == <<"R", "o", "c", "k", "l", "i", "n", ",", " ", "C", "A">>

DefaultSettings ==
    JObj([city |-> JStr(RocklinCA),
          units |-> JStr(<<"F">>),
          tickers |-> JList(<<JStr(<<"A", "A", "P", "L">>),
                              JStr(<<"M", "S", "F", "T">>),
                              JStr(<<"N", "V", "D", "A">>)>>),
          timezone |-> JStr(<<"A", "m", "e", "r", "i", "c", "a", "/",
                              "L", "o", "s", "_", "A", "n", "g", "e", "l", "e", "s">>),
          dark_mode |-> JBool(FALSE)])

\* the default each document is loaded with
DefaultOf(path) ==
    IF path = SETTINGS_PATH THEN DefaultSettings ELSE JList(<<>>)

\* sequences over S of length at most n
SeqsUpTo(S, n) == UNION {[1..k -> S] : k \in 0..n}

----------------------------------------------------------------------------
(* datetime.date: a record [y, m, d] *)

Date(y, m, d) == [y |-> y, m |-> m, d |-> d]

IsLeap(y) == (y % 4 = 0) /\ ((y % 100 # 0) \/ (y % 400 = 0))

DaysInMonth(y, m) ==
    IF m = 2 THEN (IF IsLeap(y) THEN 29 ELSE 28)
    ELSE IF m \in {4, 6, 9, 11} THEN 30 ELSE 31

\* date.__le__ compares (year, month, day)
DateKey(dt) == dt.y * 10000 + dt.m * 100 + dt.d
DateLe(a, b) == DateKey(a) <= DateKey(b)

\* date + timedelta(days=n), n >= 0
RECURSIVE AddDays(_, _)
AddDays(dt, n) ==
    IF n = 0 THEN dt
    ELSE IF dt.d < DaysInMonth(dt.y, dt.m) THEN AddDays(Date(dt.y, dt.m, dt.d + 1), n - 1)
    ELSE IF dt.m < 12 THEN AddDays(Date(dt.y, dt.m + 1, 1), n - 1)
    ELSE AddDays(Date(dt.y + 1, 1, 1), n - 1)

DigitChar(n) == <<"0", "1", "2", "3", "4", "5", "6", "7", "8", "9">>[n + 1]

\* date.isoformat(): "YYYY-MM-DD"
IsoFormat(dt) ==
    <<DigitChar(dt.y \div 1000), DigitChar((dt.y \div 100) % 10),
      DigitChar((dt.y \div 10) % 10), DigitChar(dt.y % 10), "-",
      DigitChar(dt.m \div 10), DigitChar(dt.m % 10), "-",
      DigitChar(dt.d \div 10), DigitChar(dt.d % 10)>>

RECURSIVE DigitsVal(_, _)
DigitsVal(s, acc) ==
    IF s = <<>> THEN acc ELSE DigitsVal(Tail(s), acc * 10 + DigitVal(Head(s)))

AllDigits(s) == \A i \in 1..Len(s) : IsDigit(s[i])

NoDate == [exc |-> TRUE, date |-> Date(0, 0, 0)]

\* date(year, month, day): ValueError outside the calendar
MakeDate(y, m, d) ==
    IF y >= 1 /\ m \in 1..12 /\ d >= 1 /\ d <= DaysInMonth(y, m)
    THEN [exc |-> FALSE, date |-> Date(y, m, d)]
    ELSE NoDate

\* date.fromisoformat(v): TypeError unless v is a str; "YYYY-MM-DD"; from
\* Python 3.11 on also "YYYYMMDD" (basic); ValueError otherwise
FromIsoFormat(v, basic) ==
    IF ~IsStr(v) THEN NoDate
    ELSE LET s == v.str
         IN  IF Len(s) = 10 /\ s[5] = "-" /\ s[8] = "-"
                /\ AllDigits(SubSeq(s, 1, 4)) /\ AllDigits(SubSeq(s, 6, 7))
                /\ AllDigits(SubSeq(s, 9, 10))
             THEN MakeDate(DigitsVal(SubSeq(s, 1, 4), 0), DigitsVal(SubSeq(s, 6, 7), 0),
                           DigitsVal(SubSeq(s, 9, 10), 0))
             ELSE IF basic /\ Len(s) = 8 /\ AllDigits(s)
             THEN MakeDate(DigitsVal(SubSeq(s, 1, 4), 0), DigitsVal(SubSeq(s, 5, 6), 0),
                           DigitsVal(SubSeq(s, 7, 8), 0))
             ELSE NoDate

----------------------------------------------------------------------------
(* Reminder helpers *)

\* r["due"]: KeyError when the key is missing
HasKey(r, k) == IsObj(r) /\ k \in DOMAIN r.obj

\* the loop of get_reminders_for_range: the entries kept, in list order
RECURSIVE FilterRange(_, _, _, _)
FilterRange(rs, start, end, basic) ==
    IF rs = <<>> THEN <<>>
    ELSE LET r == Head(rs)
             due == IF HasKey(r, "due") THEN FromIsoFormat(r.obj.due, basic) ELSE NoDate
             keep == ~due.exc /\ DateLe(start, due.date) /\ DateLe(due.date, end)
         IN  (IF keep THEN <<r>> ELSE <<>>) \o FilterRange(Tail(rs), start, end, basic)

\* sorted(xs, key=lambda x: x["due"]) on str keys: stable, by code points
RECURSIVE InsertByDue(_, _)
InsertByDue(acc, x) ==
    IF acc = <<>> THEN <<x>>
    ELSE IF StrLess(x.obj.due.str, acc[Len(acc)].obj.due.str)
         THEN Append(InsertByDue(SubSeq(acc, 1, Len(acc) - 1), x), acc[Len(acc)])
         ELSE Append(acc, x)

RECURSIVE SortedByDue(_, _)
SortedByDue(xs, acc) ==
    IF xs = <<>> THEN acc ELSE SortedByDue(Tail(xs), InsertByDue(acc, Head(xs)))

\* get_reminders_for_range(start, end)
get_reminders_for_range(rs, start, end, basic) ==
    SortedByDue(FilterRange(rs, start, end, basic), <<>>)

Idle == [op |-> "none"]

\* delete_reminder without its bounds test: list.pop(index)
delete_reminder_unchecked(rs, index) ==
    LET n == Len(rs)
        i == IF index < 0 THEN n + index + 1 ELSE index + 1
    IN  IF i \in 1..n
        THEN [list |-> SubSeq(rs, 1, i - 1) \o SubSeq(rs, i + 1, n),
              save |-> TRUE, raised |-> FALSE]
        ELSE [list |-> rs, save |-> FALSE, raised |-> TRUE]

\* delete_reminder(index), index counted from 0: [list, save, raised]
delete_reminder(rs, index) ==
    IF 0 <= index /\ index < Len(rs)
    THEN [list |-> SubSeq(rs, 1, index) \o SubSeq(rs, index + 2, Len(rs)),
          save |-> TRUE, raised |-> FALSE]
    ELSE [list |-> rs, save |-> FALSE, raised |-> FALSE]

\* datetime.now(timezone.utc).isoformat() at clock reading now
CreatedStamp(now) == <<"T", DigitChar(now)>>

\* add_reminder(text, due): [list, save, raised]
add_reminder(rs, text, due, now) ==
    [list |-> Append(rs, JObj([text |-> JStr(Strip(text)),
                                due |-> JStr(IsoFormat(due)),
                                created |-> JStr(CreatedStamp(now))])),
     save |-> TRUE, raised |-> FALSE]

\* the str values under key k
StrsUnder(rs, k) ==
    {rs[i].obj[k].str : i \in {j \in 1..Len(rs) : HasKey(rs[j], k) /\ IsStr(rs[j].obj[k])}}

\* the Reminders tab of one script run (Streamlit's own calls are taken to
\* succeed): the first exception that escapes, and what was shown before it
render_tab3(rs, today, basic) ==
    LET cols == UNION {DOMAIN rs[i].obj : i \in 1..Len(rs)}
        csvExc ==
            IF rs = <<>> THEN "none"
            ELSE IF ~({"text", "due", "created"} \subseteq cols) THEN "KeyError"
            ELSE IF \E k \in {"text", "due", "created"} :
                        \E x \in StrsUnder(rs, k) : ~Encodable(x)
                 THEN "UnicodeEncodeError"
            ELSE "none"
        todays == get_reminders_for_range(rs, today, today, basic)
        weeks == get_reminders_for_range(rs, today, AddDays(today, 6), basic)
        viewExc ==
            IF \E i \in 1..Len(weeks) : ~HasKey(weeks[i], "text") THEN "KeyError"
            ELSE "none"
        manageExc ==
            IF rs = <<>> THEN "none"
            ELSE IF \E i \in 1..Len(rs) : ~HasKey(rs[i], "due") THEN "KeyError"
            ELSE IF Len(rs) >= 2 /\ \E i \in 1..Len(rs) : ~IsStr(rs[i].obj.due)
                 THEN "TypeError"
            ELSE IF \E i \in 1..Len(rs) : ~HasKey(rs[i], "text") THEN "KeyError"
            ELSE "none"
        exc == IF csvExc # "none" THEN csvExc
               ELSE IF viewExc # "none" THEN viewExc
               ELSE manageExc
    IN  [exc |-> exc,
         at |-> IF csvExc # "none" THEN "export"
                ELSE IF viewExc # "none" THEN "views"
                ELSE IF manageExc # "none" THEN "manage" ELSE "end",
         todays |-> IF csvExc = "none" THEN todays ELSE <<>>,
         weeks |-> IF csvExc = "none" THEN weeks ELSE <<>>,
         rows |-> IF exc = "none" /\ rs # <<>> THEN SortedByDue(rs, <<>>) ELSE <<>>]

----------------------------------------------------------------------------
(* The reminder session: the script loads the list, renders, and runs the   *)
(* handlers of the Reminders tab; every handler ends in a rerun.            *)

MaxHand == 2       \* longest hand-written reminders document

D(d) == Date(2024, 1, d)

Due(chars) == JStr(chars)

\* records of a reminders document written or edited by hand
HandRecords ==
    {JObj([text |-> JStr(<<"a">>), created |-> JStr(<<"T", "0">>),
           due |-> Due(<<"2", "0", "2", "4", "-", "0", "1", "-", "0", "9">>)]),
     JObj([text |-> JStr(<<"b">>), created |-> JStr(<<"T", "0">>),
           due |-> Due(<<"2", "0", "2", "4", "0", "1", "0", "5">>)]),
     JObj([text |-> JStr(<<"c">>), created |-> JStr(<<"T", "0">>),
           due |-> Due(<<"2", "0", "2", "4", "-", "0", "2", "-", "3", "0">>)]),
     JObj([text |-> JStr(<<"a">>), created |-> JStr(<<"T", "0">>), due |-> JNull]),
     JObj([text |-> JStr(<<"b">>), created |-> JStr(<<"T", "0">>)]),
     JObj([text |-> JStr(<<"c", Surrogate>>), created |-> JStr(<<"T", "0">>),
           due |-> Due(<<"2", "0", "2", "4", "-", "0", "1", "-", "0", "5">>)])}

InitDocs ==
    {Absent, File(<<P("[")>>)}
        \cup {File(DumpValue(JList(xs))) : xs \in SeqsUpTo(HandRecords, MaxHand)}

AddTexts == {<<"a", " ">>}
AddDues == {D(5), D(9)}
Clock == {1}
QueryDates == {D(5), D(9)}
Todays == {D(3), D(9)}

Init ==
    /\ \E doc \in InitDocs :
           files = [p \in Paths |-> IF p = REMINDERS_PATH THEN doc ELSE Absent]
    /\ reminders = JList(<<>>)
    /\ pc = "boot"
    /\ last = Idle
    /\ isoBasic \in BOOLEAN
    /\ jres = Idle /\ geo = Idle /\ stk = Idle /\ tabs = Idle

\* reminders = load_json(REMINDERS_PATH, [])
LoadReminders ==
    /\ pc = "boot"
    /\ LET r == LoadJson(files[REMINDERS_PATH], JList(<<>>))
       IN  /\ reminders' = r.value
           /\ last' = [op |-> "load", warned |-> r.warned]
    /\ pc' = "ready"
    /\ UNCHANGED <<files, jres, isoBasic, geo, stk, tabs>>

\* what a handler's [list, save, raised] does to the list and the document
Apply(r, rec) ==
    /\ reminders' = JList(r.list)
    /\ files' = IF r.save
                THEN [files EXCEPT ![REMINDERS_PATH] = File(SaveJson(JList(r.list)).text)]
                ELSE files
    /\ last' = rec
    /\ pc' = "returned"
    /\ UNCHANGED <<jres, isoBasic, geo, stk, tabs>>

AddReminder(text, due, now) ==
    /\ pc = "ready"
    /\ Len(reminders.list) < MaxLen
    /\ LET r == add_reminder(reminders.list, text, due, now)
       IN  Apply(r, [op |-> "add", mutated |-> TRUE, raised |-> r.raised,
                     before |-> reminders.list,
                     docBefore |-> files[REMINDERS_PATH]])

DeleteReminder(index) ==
    /\ pc = "ready"
    /\ LET r == delete_reminder(reminders.list, index)
       IN  Apply(r, [op |-> "delete", index |-> index, mutated |-> r.save,
                     raised |-> r.raised, before |-> reminders.list,
                     docBefore |-> files[REMINDERS_PATH]])

QueryRange(start, end) ==
    /\ pc = "ready"
    /\ last' = [op |-> "query", start |-> start, end |-> end,
                out |-> get_reminders_for_range(reminders.list, start, end, isoBasic)]
    /\ UNCHANGED <<files, reminders, pc, jres, isoBasic, geo, stk, tabs>>

RenderTab3(today) ==
    /\ pc = "ready"
    /\ LET r == render_tab3(reminders.list, today, isoBasic)
       IN  /\ last' = [op |-> "render", today |-> today, exc |-> r.exc, at |-> r.at,
                       todays |-> r.todays, weeks |-> r.weeks, rows |-> r.rows,
                       before |-> reminders.list]
           /\ pc' = IF r.exc = "none" THEN "ready" ELSE "crashed"
    /\ UNCHANGED <<files, reminders, jres, isoBasic, geo, stk, tabs>>

\* Manage All Reminders: the run has rendered the rows of
\* sorted(reminders, key=due); the Delete button of row number `row` is
\* pressed, which calls delete_reminder(row)
ManageDelete(row) ==
    /\ pc = "ready"
    /\ last.op = "render" /\ last.exc = "none"
    /\ row < Len(last.rows)
    /\ LET r == delete_reminder(reminders.list, row)
       IN  Apply(r, [op |-> "press", row |-> row, shown |-> last.rows[row + 1],
                     mutated |-> r.save, raised |-> r.raised,
                     before |-> reminders.list,
                     docBefore |-> files[REMINDERS_PATH]])

\* st.rerun(), the 60 s auto-refresh, or a reload after a failed run
Rerun ==
    /\ pc \in {"ready", "returned", "crashed"}
    /\ pc' = "boot"
    /\ last' = [op |-> "rerun"]
    /\ UNCHANGED <<files, reminders, jres, isoBasic, geo, stk, tabs>>

Next ==
    \/ LoadReminders
    \/ \E text \in AddTexts, due \in AddDues, now \in Clock : AddReminder(text, due, now)
    \/ \E index \in -1..MaxLen : DeleteReminder(index)
    \/ \E start \in QueryDates, end \in QueryDates : QueryRange(start, end)
    \/ \E today \in Todays : RenderTab3(today)
    \/ \E row \in 0..(MaxLen - 1) : ManageDelete(row)
    \/ Rerun

Spec == Init /\ [][Next]_vars

\* the entry's due value parses and lies in [start, end]
DueInRange(r, start, end) ==
    /\ HasKey(r, "due")
    /\ LET due == FromIsoFormat(r.obj.due, isoBasic)
       IN  ~due.exc /\ DateLe(start, due.date) /\ DateLe(due.date, end)

Count(x, xs) == Cardinality({i \in 1..Len(xs) : xs[i] = x})

DueDate(r) == FromIsoFormat(r.obj.due, isoBasic).date

\* C1: get_reminders_for_range(start, end) returns exactly the entries whose
\* due value parses as a date d with start <= d <= end, in ascending order of
\* due date; entries whose due value is missing or does not parse are left out.
C1_RangeQueryExactAndChronological ==
    last.op = "query" =>
        /\ \A i \in 1..Len(reminders.list) :
               LET x == reminders.list[i]
               IN  Count(x, last.out) =
                       IF DueInRange(x, last.start, last.end)
                       THEN Count(x, reminders.list) ELSE 0
        /\ \A i \in 1..Len(last.out) : DueInRange(last.out[i], last.start, last.end)
        /\ \A i, j \in 1..Len(last.out) :
               i < j => DateLe(DueDate(last.out[i]), DueDate(last.out[j]))

\* C4: delete_reminder(i) with i out of bounds leaves the list and the
\* document as they were and raises nothing; with i in bounds it removes the
\* entry at position i and keeps the others in their order.
C4_DeleteIsPositionalOrNoOp ==
    last.op = "delete" =>
        LET n == Len(last.before)
            i == last.index
        IN  /\ ~last.raised
            /\ (i < 0 \/ i >= n) =>
                   /\ reminders.list = last.before
                   /\ files[REMINDERS_PATH] = last.docBefore
            /\ (0 <= i /\ i < n) =>
                   /\ Len(reminders.list) = n - 1
                   /\ \A j \in 1..(n - 1) :
                          reminders.list[j] = last.before[IF j <= i THEN j ELSE j + 1]

C4_Witness ==
    /\ last.op = "delete" /\ last.index = 1 /\ Len(last.before) = 3
    /\ reminders.list = <<last.before[1], last.before[3]>>
    /\ last.before[1] # last.before[2]

\* C5: when add_reminder or delete_reminder has changed the list and returns,
\* the reminders document holds exactly the in-memory list.
C5_DocumentEqualsListAfterMutation ==
    (last.op \in {"add", "delete"} /\ last.mutated) =>
        /\ files[REMINDERS_PATH] # Absent
        /\ LoadJson(files[REMINDERS_PATH], JNull) =
               [value |-> reminders, warned |-> FALSE, raised |-> FALSE]

\* every record carries text, due and created, and text and created are str
\* values the export can encode: only the due values are left open
SoundApartFromDue(rs) ==
    \A i \in 1..Len(rs) :
        /\ IsObj(rs[i]) /\ {"text", "due", "created"} \subseteq DOMAIN rs[i].obj
        /\ \A k \in {"text", "created"} :
               IsStr(rs[i].obj[k]) /\ Encodable(rs[i].obj[k].str)
        /\ IsStr(rs[i].obj.due) => Encodable(rs[i].obj.due.str)

MalformedDue(r) == FromIsoFormat(r.obj.due, isoBasic).exc

\* C10: a stored reminder with a malformed due value never makes a render of
\* the Reminders tab fail and is never removed by it: the record is left out
\* of the Today and This Week views, still listed under Manage All, the
\* stored list is unchanged and no exception escapes.
C10_MalformedDueNeverFailsRender ==
    (/\ last.op = "render"
     /\ SoundApartFromDue(last.before)
     /\ \E i \in 1..Len(last.before) : MalformedDue(last.before[i]))
        => /\ last.exc = "none"
           /\ reminders.list = last.before
           /\ \A i \in 1..Len(last.before) :
                  MalformedDue(last.before[i]) =>
                      /\ Count(last.before[i], last.todays) = 0
                      /\ Count(last.before[i], last.weeks) = 0
                      /\ Count(last.before[i], last.rows) = Count(last.before[i], last.before)

\* rs without its entry at position j (counted from 1)
Without(rs, j) == SubSeq(rs, 1, j - 1) \o SubSeq(rs, j + 1, Len(rs))

\* what a Manage All row displays of a record
RowText(r) == <<r.obj.text, r.obj.due>>

\* C12: pressing Delete on a row of Manage All removes from the stored list
\* exactly one reminder, the one with the text and due shown on that row, and
\* leaves every other reminder in place.
C12_DeleteRemovesTheRowShown ==
    last.op = "press" =>
        \E j \in 1..Len(last.before) :
            /\ RowText(last.before[j]) = RowText(last.shown)
            /\ reminders.list = Without(last.before, j)

----------------------------------------------------------------------------
(* Persistence on its own: save_json, load_json and edits made to the files *)
(* from outside the program.                                                *)

MaxDocLen == 1     \* longest list handed to save_json

SomeSettings ==
    {DefaultSettings,
     JObj([DefaultSettings.obj EXCEPT !.city = JStr(<<"a", "/", "b">>),
                                      !.dark_mode = JBool(TRUE)]),
     JObj([city |-> JStr(<<"a", Surrogate>>)])}

SomeReminders ==
    {JObj([text |-> JStr(<<"a">>),
           due |-> JStr(<<"2", "0", "2", "4", "-", "0", "1", "-", "0", "1">>),
           created |-> JStr(<<"T", "0">>)]),
     JObj([text |-> JStr(<<"b", Surrogate>>),
           due |-> JStr(<<"2", "0", "2", "4", "-", "0", "1", "-", "0", "2">>),
           created |-> JStr(<<"T", "1">>)])}

SomeFavorites ==
    {JObj([name |-> JStr(<<"c">>), url |-> JStr(<<"a", "/", "b">>)])}

\* the values of each document type
DocValues(path) ==
    IF path = SETTINGS_PATH THEN SomeSettings
    ELSE IF path = REMINDERS_PATH
         THEN {JList(xs) : xs \in SeqsUpTo(SomeReminders, MaxDocLen)}
         ELSE {JList(xs) : xs \in SeqsUpTo(SomeFavorites, MaxDocLen)}

\* texts that are not one JSON value
CorruptTexts ==
    {<<>>,
     <<P("[")>>,
     <<P("{"), [key |-> "city"], P("}")>>,
     <<P("["), P("]"), P("]")>>}

JInit ==
    /\ files = [p \in Paths |-> Absent]
    /\ jres = Idle
    /\ reminders = JList(<<>>) /\ pc = "boot" /\ last = Idle /\ isoBasic = TRUE
    /\ geo = Idle /\ stk = Idle /\ tabs = Idle

JSave(path, d) ==
    LET r == SaveJson(d)
    IN  /\ files' = [files EXCEPT ![path] = File(r.text)]
        /\ jres' = [op |-> "save", path |-> path, data |-> d,
                    reported |-> r.reported, raised |-> r.raised]
        /\ UNCHANGED <<reminders, pc, last, isoBasic, geo, stk, tabs>>

JLoad(path) ==
    LET r == LoadJson(files[path], DefaultOf(path))
    IN  /\ jres' = [op |-> "load", path |-> path, content |-> files[path],
                    value |-> r.value, warned |-> r.warned, raised |-> r.raised,
                    saved |-> IF jres.op = "save" /\ jres.path = path
                              THEN <<jres.data>> ELSE <<>>]
        /\ UNCHANGED <<files, reminders, pc, last, isoBasic, geo, stk, tabs>>

\* the file is edited or removed outside the program
JTamper(path, c) ==
    /\ files' = [files EXCEPT ![path] = c]
    /\ jres' = [op |-> "tamper", path |-> path]
    /\ UNCHANGED <<reminders, pc, last, isoBasic, geo, stk, tabs>>

JNext ==
    \/ \E path \in Paths : \E d \in DocValues(path) : JSave(path, d)
    \/ \E path \in Paths : JLoad(path)
    \/ \E path \in Paths : \E c \in {File(t) : t \in CorruptTexts} \cup {Absent} :
           JTamper(path, c)

SpecJson == JInit /\ [][JNext]_vars

\* C7: load_json on a missing or unparsable document returns exactly the
\* default passed for that document and raises nothing.
C7_MissingOrCorruptYieldsDefault ==
    (jres.op = "load" /\ (jres.content = Absent \/ JsonLoad(jres.content.text).exc))
        => (jres.value = DefaultOf(jres.path) /\ ~jres.raised)

C7_Witness ==
    /\ jres.op = "load" /\ jres.path = SETTINGS_PATH
    /\ jres.content = File(<<P("{"), [key |-> "city"], P("}")>>)
    /\ jres.value = DefaultSettings /\ jres.warned

\* C8: save_json(path, d) followed by load_json(path, default) returns d.
C8_SaveThenLoadReturnsSaved ==
    (jres.op = "load" /\ jres.saved # <<>>) => jres.value = jres.saved[1]

----------------------------------------------------------------------------
(* The city geocoder.  A provider's reply is a transport error or an HTTP    *)
(* reply [status, body]; a body is NotJson or a JSON value, where numbers    *)
(* are [num |-> n].                                                          *)

\* sanitize_city_input without the replacement of slashes
sanitize_keep_slashes(s) == Join(<<" ">>, SplitWs(Strip(s), <<>>, <<>>))

\* sanitize_city_input(s)
sanitize_city_input(s) ==
    Join(<<" ">>, SplitWs(Replace(Strip(s), "/", <<",", " ">>), <<>>, <<>>))

JNum(n) == [num |-> n]
NotJson == [notjson |-> TRUE]

TransportError == [kind |-> "transport_error"]
Http(status, body) == [kind |-> "http", status |-> status, body |-> body]

None == [none |-> TRUE]
Coords(lat, lon) == [lat |-> lat, lon |-> lon]

\* float(v): a number, or a str of digits with an optional sign
Float(v) ==
    IF DOMAIN v = {"num"} THEN [exc |-> FALSE, val |-> v.num]
    ELSE IF IsStr(v) /\ v.str # <<>> /\ AllDigits(v.str)
         THEN [exc |-> FALSE, val |-> DigitsVal(v.str, 0)]
    ELSE IF IsStr(v) /\ Len(v.str) >= 2 /\ v.str[1] = "-" /\ AllDigits(Tail(v.str))
         THEN [exc |-> FALSE, val |-> 0 - DigitsVal(Tail(v.str), 0)]
    ELSE [exc |-> TRUE, val |-> 0]

\* bool(v) of a JSON value
Truthy(v) ==
    IF DOMAIN v = {"null"} THEN FALSE
    ELSE IF DOMAIN v = {"bool"} THEN v.bool
    ELSE IF DOMAIN v = {"num"} THEN v.num # 0
    ELSE IF IsStr(v) THEN v.str # <<>>
    ELSE IF IsList(v) THEN v.list # <<>>
    ELSE DOMAIN v.obj # {}

\* (float(item[a]), float(item[b])): [exc, coords]
CoordsOf(item, a, b) ==
    IF ~IsObj(item) \/ ~({a, b} \subseteq DOMAIN item.obj) THEN [exc |-> TRUE, coords |-> None]
    ELSE LET x == Float(item.obj[a])
             y == Float(item.obj[b])
         IN  IF x.exc \/ y.exc THEN [exc |-> TRUE, coords |-> None]
             ELSE [exc |-> FALSE, coords |-> Coords(x.val, y.val)]

\* the body of the first try block: [exc, coords], coords None when the block
\* falls through
open_meteo_block(resp) ==
    IF resp.kind = "transport_error" THEN [exc |-> TRUE, coords |-> None]
    ELSE IF resp.status >= 400 THEN [exc |-> TRUE, coords |-> None]
    ELSE IF resp.body = NotJson THEN [exc |-> TRUE, coords |-> None]
    ELSE IF ~IsObj(resp.body) THEN [exc |-> TRUE, coords |-> None]
    ELSE LET results == IF "results" \in DOMAIN resp.body.obj
                        THEN resp.body.obj.results ELSE JList(<<>>)
         IN  IF ~Truthy(results) THEN [exc |-> FALSE, coords |-> None]
             ELSE IF ~IsList(results) THEN [exc |-> TRUE, coords |-> None]
             ELSE CoordsOf(results.list[1], "latitude", "longitude")

\* the body of the second try block
nominatim_block(resp) ==
    IF resp.kind = "transport_error" THEN [exc |-> TRUE, coords |-> None]
    ELSE IF resp.status >= 400 THEN [exc |-> TRUE, coords |-> None]
    ELSE IF resp.body = NotJson THEN [exc |-> TRUE, coords |-> None]
    ELSE IF IsList(resp.body) /\ resp.body.list # <<>>
         THEN CoordsOf(resp.body.list[1], "lat", "lon")
    ELSE [exc |-> FALSE, coords |-> None]

\* a try block whose except clause passes
Guarded(block) == [exc |-> FALSE, coords |-> block.coords]

\* geocode_city after the first reply with the second lookup always made
after_open_meteo_always_fallback(resp) ==
    [returns |-> FALSE, coords |-> None]

\* geocode_city after the first reply: return the hit, or go on to Nominatim
after_open_meteo(resp) ==
    LET b == Guarded(open_meteo_block(resp))
    IN  [returns |-> b.coords # None, coords |-> b.coords]

\* geocode_city after the second reply with the except clause left out
after_nominatim_unguarded(resp) ==
    LET b == nominatim_block(resp)
    IN  [raised |-> b.exc, coords |-> b.coords]

\* geocode_city after the second reply: [raised, coords]
after_nominatim(resp) ==
    LET b == Guarded(nominatim_block(resp))
    IN  [raised |-> b.exc, coords |-> b.coords]

CityChars == {"a", "/", " ", "TAB"}

RocklinSlashCA == <<"R", "o", "c", "k", "l", "i", "n", "/", "C", "A">>

Cities == SeqsUpTo(CityChars, MaxCityLen) \cup {RocklinSlashCA}

Place(lat, lon) == JObj([latitude |-> JNum(lat), longitude |-> JNum(lon)])

OpenMeteoReplies ==
    {TransportError, Http(200, NotJson), Http(200, JList(<<>>)), Http(200, JObj(<<>>)),
     Http(200, JObj([results |-> JList(<<>>)])),
     Http(200, JObj([results |-> JList(<<Place(38, 0 - 121), Place(2, 3)>>)])),
     Http(500, JObj([results |-> JList(<<Place(38, 0 - 121)>>)])),
     Http(200, JObj([results |-> JList(<<JObj([latitude |-> JNum(38)])>>)])),
     Http(200, JObj([results |-> JList(<<JObj([latitude |-> JNull,
                                               longitude |-> JNum(2)])>>)]))}

NominatimReplies ==
    {TransportError, Http(200, NotJson), Http(200, JList(<<>>)),
     Http(200, JObj([error |-> JStr(<<"a">>)])), Http(429, JList(<<>>)),
     Http(200, JList(<<JObj([lat |-> JStr(<<"4", "8">>), lon |-> JStr(<<"-", "2">>)])>>)),
     Http(200, JList(<<JObj([lat |-> JStr(<<"4", "8">>)])>>)),
     Http(200, JList(<<JObj([lat |-> JStr(<<"a">>), lon |-> JStr(<<"2">>)])>>))}

NoReply == [kind |-> "none"]

GInit ==
    /\ geo = Idle
    /\ files = [p \in Paths |-> Absent] /\ jres = Idle
    /\ reminders = JList(<<>>) /\ pc = "boot" /\ last = Idle /\ isoBasic = TRUE
    /\ stk = Idle /\ tabs = Idle

\* coords = geocode_city(settings["city"]): sanitize, send the first request
GeoCall(name) ==
    /\ geo = Idle
    /\ geo' = [op |-> "geocode", pc |-> "open-meteo", name |-> name,
               cleaned |-> sanitize_city_input(name),
               calls |-> <<[to |-> "open-meteo", q |-> sanitize_city_input(name)]>>,
               first |-> NoReply, second |-> NoReply,
               coords |-> None, raised |-> FALSE, view |-> "none"]
    /\ UNCHANGED <<files, reminders, pc, last, jres, isoBasic, stk, tabs>>

OpenMeteoAnswers(resp) ==
    /\ geo.op = "geocode" /\ geo.pc = "open-meteo"
    /\ LET r == after_open_meteo(resp)
       IN  geo' = IF r.returns
                  THEN [geo EXCEPT !.pc = "returned", !.first = resp, !.coords = r.coords]
                  ELSE [geo EXCEPT !.pc = "nominatim", !.first = resp,
                                   !.calls = Append(@, [to |-> "nominatim",
                                                        q |-> geo.cleaned])]
    /\ UNCHANGED <<files, reminders, pc, last, jres, isoBasic, stk, tabs>>

NominatimAnswers(resp) ==
    /\ geo.op = "geocode" /\ geo.pc = "nominatim"
    /\ LET r == after_nominatim(resp)
       IN  geo' = [geo EXCEPT !.pc = IF r.raised THEN "raised" ELSE "returned",
                              !.second = resp, !.coords = r.coords,
                              !.raised = r.raised]
    /\ UNCHANGED <<files, reminders, pc, last, jres, isoBasic, stk, tabs>>

\* the tab after geocode_city returned: the guidance, or the weather fetch
Tab1Show ==
    /\ geo.op = "geocode" /\ geo.pc = "returned"
    /\ geo' = [geo EXCEPT !.pc = "shown",
                          !.view = IF geo.coords = None THEN "city_not_found"
                                   ELSE "weather"]
    /\ UNCHANGED <<files, reminders, pc, last, jres, isoBasic, stk, tabs>>

\* the next script run
GeoRerun ==
    /\ geo.op = "geocode" /\ geo.pc \in {"shown", "raised"}
    /\ geo' = Idle
    /\ UNCHANGED <<files, reminders, pc, last, jres, isoBasic, stk, tabs>>

GNext ==
    \/ \E name \in Cities : GeoCall(name)
    \/ \E resp \in OpenMeteoReplies : OpenMeteoAnswers(resp)
    \/ \E resp \in NominatimReplies : NominatimAnswers(resp)
    \/ Tab1Show
    \/ GeoRerun

SpecGeo == GInit /\ [][GNext]_vars

\* the reply is a success carrying a non-empty result list
NonEmptyResults(resp) ==
    /\ resp.kind = "http" /\ resp.body # NotJson /\ IsObj(resp.body)
    /\ "results" \in DOMAIN resp.body.obj
    /\ IsList(resp.body.obj.results) /\ resp.body.obj.results.list # <<>>

Floatable(item, k) == IsObj(item) /\ k \in DOMAIN item.obj /\ ~Float(item.obj[k]).exc

\* ... with a success status and a first result whose latitude and longitude
\* convert to float
UsableFirstResult(resp) ==
    /\ NonEmptyResults(resp) /\ resp.status < 400
    /\ Floatable(resp.body.obj.results.list[1], "latitude")
    /\ Floatable(resp.body.obj.results.list[1], "longitude")

FirstResultCoords(resp) ==
    LET item == resp.body.obj.results.list[1]
    IN  IF Floatable(item, "latitude") /\ Floatable(item, "longitude")
        THEN Coords(Float(item.obj.latitude).val, Float(item.obj.longitude).val)
        ELSE None

NominatimNotAsked == \A i \in 1..Len(geo.calls) : geo.calls[i].to # "nominatim"

\* C2 as stated: whenever Open-Meteo answers with a non-empty result list,
\* Nominatim is never queried in that run and the run returns the coordinates
\* of Open-Meteo's first result.
C2_NonEmptyPrimaryNeverFallsBack ==
    (geo.op = "geocode" /\ NonEmptyResults(geo.first)) =>
        /\ NominatimNotAsked
        /\ geo.pc \in {"returned", "shown"}
        /\ geo.coords = FirstResultCoords(geo.first)

\* C2 amended: whenever Open-Meteo answers with a success status and a
\* non-empty result list whose first result has latitude and longitude values
\* that convert to float, Nominatim is never queried in that run and the run
\* returns the coordinates of that first result.
C2_UsablePrimaryNeverFallsBack ==
    (geo.op = "geocode" /\ UsableFirstResult(geo.first)) =>
        /\ NominatimNotAsked
        /\ geo.pc \in {"returned", "shown"}
        /\ geo.coords # None
        /\ geo.coords = FirstResultCoords(geo.first)

C2_Witness ==
    /\ geo.op = "geocode" /\ geo.pc = "returned"
    /\ geo.first = Http(200, JObj([results |-> JList(<<Place(38, 0 - 121), Place(2, 3)>>)]))
    /\ geo.coords = Coords(38, 0 - 121)
    /\ Len(geo.calls) = 1

\* Nominatim's reply is a success carrying a list whose first entry has lat
\* and lon values that convert to float
UsableNominatim(resp) ==
    /\ resp.kind = "http" /\ resp.status < 400 /\ resp.body # NotJson
    /\ IsList(resp.body) /\ resp.body.list # <<>>
    /\ Floatable(resp.body.list[1], "lat") /\ Floatable(resp.body.list[1], "lon")

\* C3: when each provider fails (transport error, HTTP error, unparsable or
\* malformed body) or returns no result, geocode_city returns None and raises
\* nothing, and the tab shows the city-not-found guidance in place of a
\* weather fetch.
C3_BothFailYieldsNotFound ==
    (/\ geo.op = "geocode" /\ geo.pc \in {"returned", "raised", "shown"}
     /\ ~UsableFirstResult(geo.first) /\ ~UsableNominatim(geo.second))
        => /\ geo.coords = None
           /\ ~geo.raised /\ geo.pc # "raised"
           /\ geo.pc = "shown" => geo.view = "city_not_found"

C3_Witness ==
    /\ geo.op = "geocode" /\ geo.pc = "shown" /\ geo.view = "city_not_found"
    /\ geo.first = TransportError
    /\ geo.second = Http(200, JList(<<JObj([lat |-> JStr(<<"4", "8">>)])>>))
    /\ Len(geo.calls) = 2

NonSpace(s) == SelectSeq(s, LAMBDA c : ~IsSpace(c))

SlashesAsCommas(s) == [i \in 1..Len(s) |-> IF s[i] = "/" THEN "," ELSE s[i]]

\* the positions of the characters that are not whitespace
Inked(s) == SelectSeq([i \in 1..Len(s) |-> i], LAMBDA i : ~IsSpace(s[i]))

\* t is n with every "/" turned into ", ", trimmed, and every run of
\* whitespace collapsed to one space
IsSanitized(t, n) ==
    /\ \A i \in 1..Len(t) : t[i] # "/"
    /\ t # <<>> => ~IsSpace(t[1]) /\ ~IsSpace(t[Len(t)])
    /\ \A i \in 1..Len(t) : IsSpace(t[i]) => t[i] = " " /\ ~IsSpace(t[i + 1])
    /\ NonSpace(t) = NonSpace(SlashesAsCommas(n))
    /\ \A k \in 1..(Len(Inked(t)) - 1) :
           (Inked(t)[k + 1] - Inked(t)[k] = 2)
               <=> (Inked(n)[k + 1] - Inked(n)[k] > 1 \/ n[Inked(n)[k]] = "/")

\* C9: the text sent to each provider is the city input with every "/"
\* replaced by ", ", trimmed and with repeated whitespace collapsed, never
\* the raw input; "Rocklin/CA" is sent as "Rocklin, CA".
C9_ProvidersGetSanitizedCity ==
    geo.op = "geocode" =>
        /\ \A i \in 1..Len(geo.calls) : IsSanitized(geo.calls[i].q, geo.name)
        /\ geo.name = RocklinSlashCA =>
               \A i \in 1..Len(geo.calls) : geo.calls[i].q = RocklinCA

C9_Witness ==
    /\ geo.op = "geocode" /\ geo.name = RocklinSlashCA
    /\ Len(geo.calls) = 2
    /\ geo.calls[1] = [to |-> "open-meteo", q |-> RocklinCA]
    /\ geo.calls[2] = [to |-> "nominatim", q |-> RocklinCA]

----------------------------------------------------------------------------
(* The Stocks tab.  A pandas Series is a function from its timestamps to    *)
(* values Px(n) or NaN; a DataFrame is a function from its timestamps to    *)
(* rows, one value per column.                                              *)

Px(n) == [px |-> n]
NaN == [nan |-> TRUE]

\* the metric of a ticker without a price
NA == [na |-> TRUE]

\* Series.dropna()
DropNa(col) == [t \in {u \in DOMAIN col : col[u] # NaN} |-> col[t]]

Latest(col) == CHOOSE t \in DOMAIN col : \A u \in DOMAIN col : u <= t

\* fetch_live_price_and_intraday(ticker) on what yf.download gave:
\* [price, series], each None on any failure
fetch_live_price_and_intraday(dl) ==
    IF dl.kind = "error" THEN [price |-> None, series |-> None]
    ELSE IF dl.kind = "none" THEN [price |-> None, series |-> None]
    ELSE IF DOMAIN dl.close = {} \/ ~dl.hasClose THEN [price |-> None, series |-> None]
    ELSE LET close == DropNa(dl.close)
         IN  IF DOMAIN close = {} THEN [price |-> None, series |-> None]
             ELSE [price |-> close[Latest(close)], series |-> [col |-> close]]

\* pd.concat(series_list, axis=1) as an inner join: the shared timestamps only
concat_inner(series_list) ==
    LET idx == {t \in 1..MaxT : \A k \in 1..Len(series_list) : t \in DOMAIN series_list[k].col}
    IN  [t \in idx |-> [k \in 1..Len(series_list) |-> series_list[k].col[t]]]

\* pd.concat(series_list, axis=1): the union of the timestamps, NaN where a
\* series has none
concat_columns(series_list) ==
    LET idx == UNION {DOMAIN series_list[k].col : k \in 1..Len(series_list)}
    IN  [t \in idx |-> [k \in 1..Len(series_list) |->
                            IF t \in DOMAIN series_list[k].col
                            THEN series_list[k].col[t] ELSE NaN]]

\* DataFrame.dropna(how="all"): drop the rows that hold nothing but NaN
dropna_all(frame) ==
    [t \in {u \in DOMAIN frame : \E k \in DOMAIN frame[u] : frame[u][k] # NaN} |-> frame[t]]

Columns(ts) == [t \in ts |-> Px(t)]

\* what yf.download may give for one ticker
Downloads ==
    {[kind |-> "error"], [kind |-> "none"],
     [kind |-> "frame", hasClose |-> FALSE, close |-> Columns({1})]}
        \cup {[kind |-> "frame", hasClose |-> TRUE, close |-> c] :
                c \in UNION {[ts -> {NaN}] \cup {Columns(ts)}
                             \cup {[t \in ts |-> IF t = 1 THEN NaN ELSE Px(t)]} :
                             ts \in SUBSET (1..MaxT)}}

TickerLists == {<<"AAPL", "MSFT", "NVDA">>, <<"AAPL", "", "AAPL">>}

SInit ==
    /\ stk = Idle
    /\ files = [p \in Paths |-> Absent] /\ jres = Idle
    /\ reminders = JList(<<>>) /\ pc = "boot" /\ last = Idle /\ isoBasic = TRUE
    /\ geo = Idle /\ tabs = Idle

\* the tab's three ticker inputs
StocksBegin(tickers) ==
    /\ stk = Idle
    /\ stk' = [op |-> "stocks", pc |-> "fetch", tickers |-> tickers, metrics |-> <<>>,
               fetched |-> <<>>, series_list |-> <<>>, merged |-> <<>>, view |-> "none"]
    /\ UNCHANGED <<files, reminders, pc, last, jres, isoBasic, geo, tabs>>

\* one turn of the loop over the tickers
FetchTicker(dl) ==
    /\ stk.op = "stocks" /\ stk.pc = "fetch" /\ Len(stk.metrics) < Len(stk.tickers)
    /\ LET tk == stk.tickers[Len(stk.metrics) + 1]
           r == fetch_live_price_and_intraday(dl)
       IN  stk' = IF tk = ""
                  THEN [stk EXCEPT !.metrics = Append(@, NA),
                                   !.fetched = Append(@, None)]
                  ELSE [stk EXCEPT !.metrics = Append(@, IF r.price = None THEN NA
                                                         ELSE r.price),
                                   !.fetched = Append(@, r.series),
                                   !.series_list = IF r.series # None
                                                   THEN Append(@, r.series) ELSE @]
    /\ UNCHANGED <<files, reminders, pc, last, jres, isoBasic, geo, tabs>>

\* the merge and the chart, once the loop is over
MergeAndChart ==
    /\ stk.op = "stocks" /\ stk.pc = "fetch" /\ Len(stk.metrics) = Len(stk.tickers)
    /\ stk' = IF stk.series_list = <<>>
              THEN [stk EXCEPT !.pc = "shown", !.view = "no_data"]
              ELSE LET merged == dropna_all(concat_columns(stk.series_list))
                   IN  [stk EXCEPT !.pc = "shown", !.merged = merged,
                                   !.view = IF DOMAIN merged # {} THEN "chart"
                                            ELSE "no_overlap"]
    /\ UNCHANGED <<files, reminders, pc, last, jres, isoBasic, geo, tabs>>

StocksRerun ==
    /\ stk.op = "stocks" /\ stk.pc = "shown"
    /\ stk' = Idle
    /\ UNCHANGED <<files, reminders, pc, last, jres, isoBasic, geo, tabs>>

SNext ==
    \/ \E tickers \in TickerLists : StocksBegin(tickers)
    \/ \E dl \in Downloads : FetchTicker(dl)
    \/ MergeAndChart
    \/ StocksRerun

SpecStocks == SInit /\ [][SNext]_vars

\* every ticker that gave a series shows that series' own last price
OwnLastPriceShown ==
    \A i \in 1..Len(stk.fetched) :
        stk.fetched[i] # None =>
            stk.metrics[i] = stk.fetched[i].col[Latest(stk.fetched[i].col)]

\* C6 as stated: the combined chart data holds only the timestamps present in
\* every fetched series, while each ticker's own last price is still shown.
C6_ChartKeepsOnlySharedTimestamps ==
    (stk.op = "stocks" /\ stk.pc = "shown" /\ stk.series_list # <<>>) =>
        /\ \A t \in DOMAIN stk.merged :
               \A k \in 1..Len(stk.series_list) : t \in DOMAIN stk.series_list[k].col
        /\ OwnLastPriceShown

\* C6 amended: the combined chart data holds every timestamp present in at
\* least one fetched series and no other; a timestamp absent from a series is
\* kept, with no value in that series' column; each ticker's own last price is
\* still shown.
C6_ChartKeepsEveryTimestamp ==
    (stk.op = "stocks" /\ stk.pc = "shown" /\ stk.series_list # <<>>) =>
        /\ stk.view = "chart"
        /\ \A t \in 1..MaxT :
               t \in DOMAIN stk.merged
                   <=> \E k \in 1..Len(stk.series_list) : t \in DOMAIN stk.series_list[k].col
        /\ \A t \in DOMAIN stk.merged : \A k \in 1..Len(stk.series_list) :
               stk.merged[t][k] = IF t \in DOMAIN stk.series_list[k].col
                                  THEN stk.series_list[k].col[t] ELSE NaN
        /\ OwnLastPriceShown

C6_Witness ==
    /\ stk.op = "stocks" /\ stk.pc = "shown" /\ stk.view = "chart"
    /\ Len(stk.series_list) = 2
    /\ DOMAIN stk.series_list[1].col = {1}
    /\ DOMAIN stk.series_list[2].col = {2}
    /\ DOMAIN stk.merged = {1, 2}
    /\ stk.merged[1] = <<Px(1), NaN>>
    /\ stk.metrics = <<Px(1), NA, Px(2)>>

----------------------------------------------------------------------------
(* Two browser tabs. Each tab is a session with a script run of its own and *)
(* a `reminders` list of its own; both read and rewrite the one reminders   *)
(* document, and nothing orders one tab's file calls against the other's.   *)

MaxSaves == 2      \* save_json calls the two tabs make between them

Tabs == {1, 2}

\* records of the document the tabs start from
TabRecords ==
    {JObj([text |-> JStr(<<"a">>), created |-> JStr(<<"T", "0">>),
           due |-> Due(<<"2", "0", "2", "4", "-", "0", "1", "-", "0", "9">>)])}

TabDocs ==
    {Absent} \cup {File(DumpValue(JList(xs))) : xs \in SeqsUpTo(TabRecords, MaxHand)}

\* open(path, "w"): the file exists and is empty, the handle stands at 0
OpenForWrite == File(<<>>)

\* leaving the with block: the buffered text goes to the file from the
\* handle's position 0 on, and what the file holds beyond it stays
FlushAtClose(cur, buf) ==
    File(buf \o SubSeq(cur.text, Len(buf) + 1, Len(cur.text)))

TabBoot == [pc |-> "boot", reminders |-> JList(<<>>), buf |-> <<>>,
            op |-> "none", before |-> <<>>]

TInit ==
    /\ \E doc \in TabDocs :
           files = [p \in Paths |-> IF p = REMINDERS_PATH THEN doc ELSE Absent]
    /\ tabs = [run |-> [t \in Tabs |-> TabBoot], saves |-> <<>>]
    /\ reminders = JList(<<>>) /\ pc = "boot" /\ last = Idle /\ isoBasic = TRUE
    /\ jres = Idle /\ geo = Idle /\ stk = Idle

Saving == {t \in Tabs : tabs.run[t].pc = "saving"}

\* reminders = load_json(REMINDERS_PATH, []) of tab t's script run
TabLoad(t) ==
    /\ tabs.run[t].pc = "boot"
    /\ tabs' = [tabs EXCEPT !.run[t] =
                   [TabBoot EXCEPT !.pc = "ready",
                                   !.reminders =
                                       LoadJson(files[REMINDERS_PATH], JList(<<>>)).value]]
    /\ UNCHANGED <<files, reminders, pc, last, jres, isoBasic, geo, stk>>

\* a handler of tab t changes the tab's own list and enters save_json, which
\* opens the document; the text json.dump produces waits in the handle
TabMutate(t, r, op) ==
    /\ tabs.run[t].pc = "ready"
    /\ IF r.save
       THEN /\ Len(tabs.saves) + Cardinality(Saving) < MaxSaves
            /\ files' = [files EXCEPT ![REMINDERS_PATH] = OpenForWrite]
            /\ tabs' = [tabs EXCEPT !.run[t] =
                           [pc |-> "saving", reminders |-> JList(r.list),
                            buf |-> SaveJson(JList(r.list)).text,
                            op |-> op, before |-> tabs.run[t].reminders.list]]
       ELSE /\ files' = files
            /\ tabs' = [tabs EXCEPT !.run[t].pc = "returned"]
    /\ UNCHANGED <<reminders, pc, last, jres, isoBasic, geo, stk>>

TabAdd(t, text, due, now) ==
    /\ tabs.run[t].pc = "ready"
    /\ Len(tabs.run[t].reminders.list) < MaxLen
    /\ TabMutate(t, add_reminder(tabs.run[t].reminders.list, text, due, now), "add")

TabDelete(t, index) ==
    /\ tabs.run[t].pc = "ready"
    /\ TabMutate(t, delete_reminder(tabs.run[t].reminders.list, index), "delete")

\* save_json of tab t leaves its with block: the handle is flushed and closed
TabClose(t) ==
    /\ tabs.run[t].pc = "saving"
    /\ files' = [files EXCEPT ![REMINDERS_PATH] =
                    FlushAtClose(files[REMINDERS_PATH], tabs.run[t].buf)]
    /\ tabs' = [run |-> [tabs.run EXCEPT ![t].pc = "returned", ![t].buf = <<>>],
                saves |-> Append(tabs.saves,
                                 [by |-> t, op |-> tabs.run[t].op,
                                  before |-> tabs.run[t].before,
                                  list |-> tabs.run[t].reminders.list])]
    /\ UNCHANGED <<reminders, pc, last, jres, isoBasic, geo, stk>>

\* st.rerun() after a handler, or the 60 s auto-refresh
TabRerun(t) ==
    /\ tabs.run[t].pc \in {"ready", "returned"}
    /\ tabs' = [tabs EXCEPT !.run[t] = TabBoot]
    /\ UNCHANGED <<files, reminders, pc, last, jres, isoBasic, geo, stk>>

TNext ==
    \/ \E t \in Tabs : TabLoad(t)
    \/ \E t \in Tabs, text \in AddTexts, due \in AddDues, now \in Clock :
           TabAdd(t, text, due, now)
    \/ \E t \in Tabs, index \in -1..MaxLen : TabDelete(t, index)
    \/ \E t \in Tabs : TabClose(t)
    \/ \E t \in Tabs : TabRerun(t)

SpecTabs == TInit /\ [][TNext]_vars

\* the save_json call that finished last
LastSave == tabs.saves[Len(tabs.saves)]

\* C11: once both tabs have loaded the document, changed their own lists and
\* rewritten the document, the document holds exactly the list of the tab
\* whose write came last.
C11_DocumentIsLastWritersList ==
    (Saving = {} /\ tabs.saves # <<>>) =>
        LoadJson(files[REMINDERS_PATH], JNull) =
            [value |-> JList(LastSave.list), warned |-> FALSE, raised |-> FALSE]

\* C11, its second half: both tabs loaded the same list, each added a
\* reminder, and the document holds the second writer's list, without the
\* reminder the first writer added.
C11_LostUpdate ==
    /\ Saving = {} /\ Len(tabs.saves) = 2
    /\ tabs.saves[1].by # tabs.saves[2].by
    /\ tabs.saves[1].op = "add" /\ tabs.saves[2].op = "add"
    /\ tabs.saves[1].before = tabs.saves[2].before
    /\ files[REMINDERS_PATH] = File(DumpValue(JList(tabs.saves[2].list)))
    /\ LET x == tabs.saves[1].list[Len(tabs.saves[1].list)]
       IN  Count(x, tabs.saves[2].list) = 0

====
